---- MODULE Spec2Model ----
(***************************************************************************)
(* The TestRunner of src/index.js as a state machine: the registration     *)
(* queue, the two run-requesting timers, and every activation of the       *)
(* async method runPendingTests, each suspended at `await testCase.fn()`.  *)
(*                                                                         *)
(* One action is one turn of the JavaScript event loop (or one synchronous *)
(* call made from page code): everything the code does between two awaits  *)
(* happens in one step.                                                    *)
(***************************************************************************)
EXTENDS Integers, Sequences, FiniteSets, TLC

\* ----------------------------------------------------------------- bounds
MaxTests == 2      \* registrations made during one behaviour
MaxTime  == 100    \* the clock stops advancing here (milliseconds)

\* ------------------------------------------------------ program constants
DebounceDelay == 50     \* setTimeout(..., 50) in scheduleAutoRun
LoadDelay     == 100    \* setTimeout(..., 100) in the load listener
TickStep      == DebounceDelay   \* the clock advances in steps of this size

\* Test names, as sequences of text tokens.  Page code names its tests in
\* turn from this list, so neighbours in the queue have different names
\* and every third registration repeats a name.
Names == << <<"a">>, <<"b">> >>

NameOf(i) == Names[((i - 1) % Len(Names)) + 1]

\* What a test body can raise: an AssertionError, another Error, or a
\* value with no properties ("null" stands for null and undefined alike:
\* the code treats the two the same way everywhere).
Values == { "AssertionError", "Error", "null" }

\* ------------------------------------------------------------------ state
VARIABLES
  passed, failed, total, startTime,   \* this.passed .. this.startTime
  testResults,                        \* this.testResults
  testQueue,                          \* this.testQueue
  autoRunScheduled,                   \* this.autoRunScheduled
  domContentLoaded,                   \* this.domContentLoaded
  timers,          \* pending setTimeout callbacks, in creation order
  loadFired,       \* the window's load event has been dispatched
  now,             \* performance.now(), in milliseconds
  console,         \* the lines written to the console, oldest first
  alerts,          \* the texts passed to alert(), oldest first
  testCompleted,   \* window.__testCompleted
  runs,            \* the activations of runPendingTests that captured a batch
  bodies,          \* per registered test: how often its fn was invoked, settled,
                   \* raised and reported, and whether it was registered
                   \* after DOMContentLoaded
  \* extractTestResults (src/index.test.js), called on its own
  consoleMessages, \* its argument: the captured console messages
  extracted,       \* whether it has returned, and the records it returned
  \* assert.deepEqual, called on its own
  actual, expected,\* its arguments
  deepEqualResult, \* whether it was called, whether it raised, and with what
  \* withSandbox, called on its own
  bodyChildren,    \* the sandbox containers attached to document.body
  calls            \* the calls of withSandbox made so far

runnerVars == << passed, failed, total, startTime, testResults, testQueue,
                 autoRunScheduled, domContentLoaded, timers, loadFired, now,
                 console, alerts, testCompleted, runs, bodies >>
extractVars == << consoleMessages, extracted >>
diffVars    == << actual, expected, deepEqualResult >>
sandboxVars == << bodyChildren, calls >>

vars == << runnerVars, extractVars, diffVars, sandboxVars >>

\* ------------------------------------------------------------ text output
Digits == << "0", "1", "2", "3", "4", "5", "6", "7", "8", "9" >>

RECURSIVE NumText(_)
\* String(n) for a natural number, as a sequence of digit tokens.
NumText(n) ==
  IF n < 10 THEN << Digits[n + 1] >>
  ELSE NumText(n \div 10) \o << Digits[(n % 10) + 1] >>

\* (ms / 1000).toFixed(3) for a whole number of milliseconds.
DurationText(ms) ==
  NumText(ms \div 1000) \o << "." >>
    \o << Digits[((ms \div 100) % 10) + 1],
          Digits[((ms \div 10) % 10) + 1],
          Digits[(ms % 10) + 1] >>

\* The emoji and the newline of the reporter's lines, one token each.
PassMark  == "U+2705"     \* the check mark that begins a pass line
FailMark  == "U+274C"     \* the cross that begins a fail line
Chart     == "U+1F4CA"
Stopwatch == "U+23F1"
Siren     == "U+1F6A8"
NL        == "LF"

Line(level, text) == [ level |-> level, text |-> text ]

\* AssertionError.prototype.log(), for an error made by assert.equal.
AssertionLog ==
  << Line("group", << Siren, " ", "AssertionError" >>),
     Line("error", << "Message:", " ", " ", "message" >>),
     Line("log",   << "Actual:" >>),
     Line("dir",   << "actual" >>),
     Line("log",   << "Expected:" >>),
     Line("dir",   << "expected" >>),
     Line("debug", << "Stack:", " ", " ", "stack" >>) >>

\* `result.error.message` throws a TypeError for these.
Nullish(v) == v = "null"

\* Lines 102-111 for one entry of testResults.  threw: the entry's error
\* has no properties, so reading its message raised a TypeError.
CaseLines(result) ==
  IF result.passed
    THEN [ lines |-> << Line("info", << PassMark, " " >> \o result.name) >>,
           threw |-> FALSE ]
    ELSE LET head == << Line("error", << FailMark, " " >> \o result.name) >>
         IN  IF result.error = "AssertionError"
               THEN [ lines |-> head \o AssertionLog, threw |-> FALSE ]
             ELSE IF Nullish(result.error)
               THEN [ lines |-> head, threw |-> TRUE ]
             ELSE [ lines |-> head \o << Line("error", << "  ", "message" >>) >>,
                    threw |-> FALSE ]

RECURSIVE ResultLoop(_, _)
\* The for loop of logSummary from entry j on: the lines it writes, and
\* whether it was left by an exception.
ResultLoop(results, j) ==
  IF j > Len(results) THEN [ lines |-> << >>, threw |-> FALSE ]
  ELSE LET c == CaseLines(results[j])
       IN  IF c.threw THEN c
           ELSE LET rest == ResultLoop(results, j + 1)
                IN  [ lines |-> c.lines \o rest.lines, threw |-> rest.threw ]

\* logSummary(): the lines written, the alerts raised, whether it threw,
\* and the value its promise settles with.
LogSummary(st, tot, start, time) ==
  LET header == << Line("info", << NL, Chart, " ", "Tests:", " " >> \o NumText(tot)) >>
      loop   == ResultLoop(st.testResults, 1)
      counts == << Line("log", << NL >>),
                   Line("log", << PassMark, " ", "Passed:", " " >> \o NumText(st.passed)) >>
                \o (IF st.failed > 0
                      THEN << Line("log", << FailMark, " ", "Failed:", " " >> \o NumText(st.failed)) >>
                      ELSE << >>)
                \o << Line("log", << Stopwatch, " ", "Duration:", " " >>
                                    \o DurationText(time - start) \o << "s" >>) >>
  IN  IF loop.threw
        THEN [ lines |-> header \o loop.lines, alerts |-> << >>,
               completed |-> FALSE, ret |-> "rejected" ]
      ELSE IF st.failed > 0
        THEN [ lines  |-> header \o loop.lines \o counts
                            \o << Line("log", << NL, FailMark, " ", "Tests failed" >>) >>,
               alerts |-> << << FailMark, " " >> \o NumText(st.failed) \o << " ", "of", " " >>
                             \o NumText(tot)
                             \o << " ", "tests failed. See console for details." >> >>,
               completed |-> TRUE, ret |-> "false" ]
      ELSE [ lines  |-> header \o loop.lines \o counts
                          \o << Line("log", << NL, PassMark, " ", "All tests passed" >>) >>,
             alerts |-> << >>, completed |-> TRUE, ret |-> "true" ]

\* ------------------------------------------------------------- scheduling
\* (mutant) scheduleAutoRun() without `if (this.autoRunScheduled) return;`.
ScheduleAutoRunUnguarded(flag, tms, time) ==
  [ flag   |-> TRUE,
    timers |-> Append(tms, [ kind |-> "debounce", due |-> time + DebounceDelay ]) ]

\* scheduleAutoRun(): the flag and the timer list it leaves.
ScheduleAutoRun(flag, tms, time) ==
  IF flag THEN [ flag |-> flag, timers |-> tms ]
  ELSE [ flag   |-> TRUE,
         timers |-> Append(tms, [ kind |-> "debounce", due |-> time + DebounceDelay ]) ]

\* The load listener: one more timer, whatever the flag says.
LoadListener(tms, time) ==
  Append(tms, [ kind |-> "load", due |-> time + LoadDelay ])

\* Timer i runs next: it is due, and no timer ahead of it is (earlier due
\* time first, creation order among equals).
Fireable(i) ==
  /\ i \in 1..Len(timers)
  /\ timers[i].due <= now
  /\ \A j \in 1..Len(timers) :
        j # i => \/ timers[j].due > timers[i].due
                 \/ (timers[j].due = timers[i].due /\ j > i)

Without(seq, i) == SubSeq(seq, 1, i - 1) \o SubSeq(seq, i + 1, Len(seq))


\* ------------------------------------------------------- the run, in parts
\* start(): the counters and the result list it leaves.
Start(time) ==
  [ passed |-> 0, failed |-> 0, total |-> 0, testResults |-> << >>,
    startTime |-> time,
    lines |-> << Line("log", << "Running tests..." >>) >> ]

\* (mutant) the early return is missing.
NothingPendingIgnored(queue) == FALSE

\* `if (this.testQueue.length === 0) return;`
NothingPending(queue) == Len(queue) = 0

\* `const testsToRun = [...this.testQueue];`
TestsToRun(queue) == queue

\* (mutant) the queue is not cleared after the capture.
DrainedKeepsQueue(queue) == queue

\* `this.testQueue = [];`
Drained(queue) == << >>

\* (mutant) the catch branch records the failure without counting it.
SettleFailureUncounted(st, testCase, outcome) ==
  IF outcome = "ok"
    THEN [ st EXCEPT !.passed = @ + 1,
                     !.testResults = Append(@, [ name |-> testCase.name,
                                                 passed |-> TRUE,
                                                 error |-> "none",
                                                 fn |-> testCase.fn ]) ]
    ELSE [ st EXCEPT !.testResults = Append(@, [ name |-> testCase.name,
                                                 passed |-> FALSE,
                                                 error |-> outcome,
                                                 fn |-> testCase.fn ]) ]

\* The try/catch around one awaited body: outcome is "ok" when the body
\* completed, else the value it raised.  (fn is no property of the entry
\* in the code: it records which body the entry came from.)
Settle(st, testCase, outcome) ==
  IF outcome = "ok"
    THEN [ st EXCEPT !.passed = @ + 1,
                     !.testResults = Append(@, [ name |-> testCase.name,
                                                 passed |-> TRUE,
                                                 error |-> "none",
                                                 fn |-> testCase.fn ]) ]
    ELSE [ st EXCEPT !.failed = @ + 1,
                     !.testResults = Append(@, [ name |-> testCase.name,
                                                 passed |-> FALSE,
                                                 error |-> outcome,
                                                 fn |-> testCase.fn ]) ]

RECURSIVE SettleThrown(_, _, _, _)
\* The loop over batch[i+1 ..] as long as each fn() throws before it
\* returns a promise: thrown holds the values raised, in order.
SettleThrown(st, batch, i, thrown) ==
  IF Len(thrown) = 0 THEN st
  ELSE SettleThrown(Settle(st, batch[i + 1], Head(thrown)), batch, i + 1, Tail(thrown))

\* (mutant) the loop calls the next body too, without awaiting this one.
InvokedWithNext(bd, id) ==
  [ b \in 1..Len(bd) |->
      IF b = id \/ b = id + 1 THEN [ bd[b] EXCEPT !.invoked = @ + 1 ] ELSE bd[b] ]

\* Bookkeeping of the bodies themselves (not part of the runner's state).
Invoked(bd, id) == [ bd EXCEPT ![id].invoked = @ + 1 ]

Settled(bd, id, outcome) ==
  [ bd EXCEPT ![id].settled = @ + 1,
              ![id].raised = @ + (IF outcome = "ok" THEN 0 ELSE 1) ]

RECURSIVE ThrownBodies(_, _, _, _)
ThrownBodies(bd, batch, i, thrown) ==
  IF Len(thrown) = 0 THEN bd
  ELSE ThrownBodies(Settled(Invoked(bd, batch[i + 1].fn), batch[i + 1].fn, Head(thrown)),
                    batch, i + 1, Tail(thrown))

\* The entries of testResults whose per-case line logSummary writes: all
\* of them, or those up to the entry at which it throws.
Printed(results) ==
  LET throwing == { j \in 1..Len(results) : CaseLines(results[j]).threw }
  IN  IF throwing = {} THEN Len(results)
      ELSE CHOOSE j \in throwing : \A other \in throwing : j <= other

\* The bodies whose entry is among the first n of results have been reported.
MarkReported(bd, results, n) ==
  [ id \in 1..Len(bd) |->
      IF \E j \in 1..n : results[j].fn = id
        THEN [ bd[id] EXCEPT !.reported = @ + 1 ]
        ELSE bd[id] ]

\* An activation r of runPendingTests goes on from the point where i
\* cases of its batch are settled, until its next await or its return:
\* the next k bodies throw synchronously; then either body i+k+1 is
\* invoked and awaited, or the batch is exhausted and logSummary runs.
\* st, cons, rs, bd are the counters, console, runs and bodies so far;
\* tot and start are this.total and this.startTime as logSummary reads them.
Advance(r, st, cons, rs, bd, i, tot, start) ==
  LET batch == rs[r].batch
  IN  \E k \in 0..(Len(batch) - i) : \E thrown \in [1..k -> Values] :
        LET st2 == SettleThrown(st, batch, i, thrown)
            bd2 == ThrownBodies(bd, batch, i, thrown)
            m   == i + k
        IN  /\ passed' = st2.passed
            /\ failed' = st2.failed
            /\ testResults' = st2.testResults
            /\ IF m < Len(batch)
                 THEN /\ bodies' = Invoked(bd2, batch[m + 1].fn)
                      /\ runs' = [ rs EXCEPT ![r].idx = m + 1 ]
                      /\ console' = cons
                      /\ UNCHANGED << alerts, testCompleted >>
                 ELSE LET rep == LogSummary(st2, tot, start, now)
                      IN  /\ bodies' = MarkReported(bd2, st2.testResults,
                                                    Printed(st2.testResults))
                          /\ console' = cons \o rep.lines
                          /\ alerts' = alerts \o rep.alerts
                          /\ testCompleted' = (testCompleted \/ rep.completed)
                          /\ runs' = [ rs EXCEPT ![r] =
                                [ @ EXCEPT !.idx = m, !.state = "done", !.ret = rep.ret,
                                           !.report = [ results |-> st2.testResults,
                                                        passed  |-> st2.passed,
                                                        failed  |-> st2.failed,
                                                        total   |-> tot,
                                                        from    |-> Len(cons) + 1,
                                                        to      |-> Len(cons) + Len(rep.lines),
                                                        alerts  |-> Len(rep.alerts) ] ] ]

\* (from, to and alerts are not values of the program: they tell which lines
\* of the console logSummary wrote for the run, and how many alerts it raised.)
NoReport ==
  [ results |-> << >>, passed |-> 0, failed |-> 0, total |-> 0,
    from |-> 1, to |-> 0, alerts |-> 0 ]

\* runPendingTests() up to its first await (or its return), called by trigger.
RunPendingTests(trigger) ==
  IF NothingPending(testQueue)
    THEN UNCHANGED << passed, failed, total, startTime, testResults, testQueue,
                      console, alerts, testCompleted, runs, bodies >>
    ELSE LET st0  == Start(now)
             run  == [ trigger |-> trigger, batch |-> TestsToRun(testQueue), idx |-> 0,
                       state |-> "running", ret |-> "pending", report |-> NoReport ]
             rs   == Append(runs, run)
             cons == console \o st0.lines
         IN  /\ total' = Len(testQueue)
             /\ startTime' = st0.startTime
             /\ testQueue' = Drained(testQueue)
             /\ Advance(Len(rs), [ passed |-> st0.passed, failed |-> st0.failed,
                                   testResults |-> st0.testResults ],
                        cons, rs, bodies, 0, Len(testQueue), st0.startTime)

\* ---------------------------------------------------------------- actions
RunnerInit ==
  /\ passed = 0 /\ failed = 0 /\ total = 0 /\ startTime = 0
  /\ testResults = << >> /\ testQueue = << >>
  /\ autoRunScheduled = FALSE /\ domContentLoaded = FALSE
  /\ timers = << >> /\ loadFired = FALSE /\ now = 0
  /\ console = << >> /\ alerts = << >> /\ testCompleted = FALSE
  /\ runs = << >> /\ bodies = << >>

\* The parts of the state that a specification does not use stay as they
\* are here.
NotExtracted == [ done |-> FALSE, records |-> << >>, scanned |-> << >> ]

ExtractIdle == consoleMessages = << >> /\ extracted = NotExtracted

NotCalled == [ called |-> FALSE, raised |-> FALSE, differences |-> << >> ]

DiffIdle == actual = "unset" /\ expected = "unset" /\ deepEqualResult = NotCalled

SandboxIdle == bodyChildren = {} /\ calls = << >>

Init == RunnerInit /\ ExtractIdle /\ DiffIdle /\ SandboxIdle

\* (mutant) enqueueTest without `if (this.domContentLoaded)`.
EnqueueTestAlwaysSchedules ==
  /\ Len(bodies) < MaxTests
  /\ LET name == NameOf(Len(bodies) + 1)
     IN  /\ testQueue' = Append(testQueue, [ name |-> name, fn |-> Len(bodies) + 1 ])
         /\ bodies' = Append(bodies, [ name |-> name, invoked |-> 0, settled |-> 0,
                                       raised |-> 0, reported |-> 0,
                                       domReady |-> domContentLoaded ])
  /\ LET s == ScheduleAutoRun(autoRunScheduled, timers, now)
     IN  autoRunScheduled' = s.flag /\ timers' = s.timers
  /\ UNCHANGED << passed, failed, total, startTime, testResults, domContentLoaded,
                  loadFired, now, console, alerts, testCompleted, runs,
                  extractVars, diffVars, sandboxVars >>

\* test(name, fn): enqueueTest.
EnqueueTest ==
  /\ Len(bodies) < MaxTests
  /\ LET name == NameOf(Len(bodies) + 1)
     IN  /\ testQueue' = Append(testQueue, [ name |-> name, fn |-> Len(bodies) + 1 ])
         /\ bodies' = Append(bodies, [ name |-> name, invoked |-> 0, settled |-> 0,
                                       raised |-> 0, reported |-> 0,
                                       domReady |-> domContentLoaded ])
  /\ LET s == ScheduleAutoRun(autoRunScheduled, timers, now)
     IN  IF domContentLoaded
           THEN autoRunScheduled' = s.flag /\ timers' = s.timers
           ELSE UNCHANGED << autoRunScheduled, timers >>
  /\ UNCHANGED << passed, failed, total, startTime, testResults, domContentLoaded,
                  loadFired, now, console, alerts, testCompleted, runs,
                  extractVars, diffVars, sandboxVars >>

\* The document's DOMContentLoaded event reaches the constructor's listener.
DOMContentLoaded ==
  /\ ~domContentLoaded
  /\ domContentLoaded' = TRUE
  /\ LET s == ScheduleAutoRun(autoRunScheduled, timers, now)
     IN  autoRunScheduled' = s.flag /\ timers' = s.timers
  /\ UNCHANGED << passed, failed, total, startTime, testResults, testQueue,
                  loadFired, now, console, alerts, testCompleted, runs, bodies,
                  extractVars, diffVars, sandboxVars >>

\* The window's load event (dispatched after DOMContentLoaded) reaches the
\* constructor's listener.
Load ==
  /\ domContentLoaded /\ ~loadFired
  /\ loadFired' = TRUE
  /\ timers' = LoadListener(timers, now)
  /\ UNCHANGED << passed, failed, total, startTime, testResults, testQueue,
                  autoRunScheduled, domContentLoaded, now, console, alerts,
                  testCompleted, runs, bodies, extractVars, diffVars, sandboxVars >>

\* Time passes; a timer that is due runs before the clock moves on.
Tick ==
  /\ now + TickStep <= MaxTime
  /\ \A i \in 1..Len(timers) : timers[i].due > now
  /\ now' = now + TickStep
  /\ UNCHANGED << passed, failed, total, startTime, testResults, testQueue,
                  autoRunScheduled, domContentLoaded, timers, loadFired, console,
                  alerts, testCompleted, runs, bodies, extractVars, diffVars,
                  sandboxVars >>

\* A timer callback runs: the debounce callback clears the flag first.
FireTimer(i) ==
  /\ Fireable(i)
  /\ timers' = Without(timers, i)
  /\ autoRunScheduled' = (IF timers[i].kind = "debounce" THEN FALSE ELSE autoRunScheduled)
  /\ RunPendingTests(timers[i].kind)
  /\ UNCHANGED << domContentLoaded, loadFired, now, extractVars, diffVars, sandboxVars >>

\* Page code calls testRunner.runPendingTests() itself.
DirectRun ==
  /\ RunPendingTests("direct")
  /\ UNCHANGED << autoRunScheduled, domContentLoaded, timers, loadFired, now,
                  extractVars, diffVars, sandboxVars >>

\* The body that activation r awaits settles (outcome "ok", or the value
\* it rejected with), and r goes on.
Resume(r, outcome) ==
  /\ r \in 1..Len(runs)
  /\ runs[r].state = "running"
  /\ LET testCase == runs[r].batch[runs[r].idx]
         st == Settle([ passed |-> passed, failed |-> failed, testResults |-> testResults ],
                      testCase, outcome)
     IN  Advance(r, st, console, runs, Settled(bodies, testCase.fn, outcome),
                 runs[r].idx, total, startTime)
  /\ UNCHANGED << total, startTime, testQueue, autoRunScheduled, domContentLoaded,
                  timers, loadFired, now, extractVars, diffVars, sandboxVars >>

Next ==
  \/ EnqueueTest
  \/ DOMContentLoaded
  \/ Load
  \/ Tick
  \/ \E i \in 1..Len(timers) : FireTimer(i)
  \/ DirectRun
  \/ \E r \in 1..Len(runs) : \E outcome \in {"ok"} \cup Values : Resume(r, outcome)

Spec == Init /\ [][Next]_vars

\* ----------------------------------------------------------- vocabulary
Running == { r \in 1..Len(runs) : runs[r].state = "running" }
Reported == { r \in 1..Len(runs) : runs[r].state = "done" }

NamesIn(seq) == [ i \in 1..Len(seq) |-> seq[i].name ]

\* The bodies of a batch that raised / completed normally.
RaisedIn(batch) == { i \in 1..Len(batch) : bodies[batch[i].fn].raised > 0 }
CompletedIn(batch) ==
  { i \in 1..Len(batch) : /\ bodies[batch[i].fn].settled > 0
                          /\ bodies[batch[i].fn].raised = 0 }

\* Bodies that have been started and have not settled yet.
InFlight == { id \in 1..Len(bodies) : bodies[id].invoked > bodies[id].settled }

DebounceTimers == { i \in 1..Len(timers) : timers[i].kind = "debounce" }

\* ------------------------------------------------------------------ claims

\* C1: when a run reports, testResults holds exactly one entry per test of
\* the batch that run captured, with the same names in the same order.
C1_ReportHoldsBatch ==
  \A r \in Reported : NamesIn(runs[r].report.results) = NamesIn(runs[r].batch)

\* C2: at most one activation of runPendingTests is executing a batch at
\* any time.
C2_OneRunning == Cardinality(Running) <= 1

\* C3: at most one body is started and not yet settled, and a body is
\* started only after every body registered before it has settled.
C3_BodiesNeverOverlap ==
  /\ Cardinality(InFlight) <= 1
  /\ \A id \in 1..Len(bodies) : \A earlier \in 1..(id - 1) :
        bodies[id].invoked > 0 => bodies[earlier].settled > 0

\* C4: when a run reports, every body of its batch has been executed, failed
\* is the number of bodies of the batch that raised, and passed the number
\* that completed normally.
C4_CountsMatchBatch ==
  \A r \in Reported :
    /\ \A i \in 1..Len(runs[r].batch) : bodies[runs[r].batch[i].fn].settled > 0
    /\ runs[r].report.failed = Cardinality(RaisedIn(runs[r].batch))
    /\ runs[r].report.passed = Cardinality(CompletedIn(runs[r].batch))

\* C6: whatever a body raises, the promise of runPendingTests never rejects.
C6_RunNeverRejects == \A r \in 1..Len(runs) : runs[r].ret # "rejected"

\* C7: at most one timer that will call runPendingTests is pending.
C7_OneTriggerPending == Len(timers) <= 1

\* C10: a run that executed a batch resolves to true exactly when no body
\* of that batch raised, and to false exactly when one did.
C10_VerdictOfBatch ==
  \A r \in Reported :
    /\ runs[r].ret = "true"  <=> RaisedIn(runs[r].batch) = {}
    /\ runs[r].ret = "false" <=> RaisedIn(runs[r].batch) # {}

\* C5: a registered test is held by the pending queue or by exactly one
\* captured batch, never by both and never by two batches, and its action
\* is invoked at most once; a captured batch never changes, and a
\* registration goes to the end of the pending queue.
Holders(id) ==
  Cardinality({ i \in 1..Len(testQueue) : testQueue[i].fn = id })
  + Cardinality({ p \in (1..Len(runs)) \X (1..Len(bodies)) :
                    /\ p[2] <= Len(runs[p[1]].batch)
                    /\ runs[p[1]].batch[p[2]].fn = id })

C5_HeldOnce ==
  \A id \in 1..Len(bodies) : Holders(id) = 1 /\ bodies[id].invoked <= 1

C5_CaptureIsAtomic ==
  [][ /\ C5_HeldOnce'
      /\ \A r \in 1..Len(runs) : runs'[r].batch = runs[r].batch
      /\ Len(bodies') > Len(bodies) =>
           /\ Len(testQueue') = Len(testQueue) + 1
           /\ testQueue'[Len(testQueue')].fn = Len(bodies')
           /\ SubSeq(testQueue', 1, Len(testQueue)) = testQueue ]_vars

\* C5 witness: a test registered while a run is executing sits in the
\* pending queue, outside the batch of that run.
C5_Witness ==
  \E r \in Running :
    /\ testQueue # << >>
    /\ \A i \in 1..Len(testQueue) : \A j \in 1..Len(runs[r].batch) :
          testQueue[i].fn > runs[r].batch[j].fn

\* C8 as claimed: the flag is true exactly while a debounce timer is
\* pending, there is never a second debounce timer, and every test
\* registered after DOMContentLoaded is executed by a run that the debounce
\* timer triggered.
C8_RunByDebounceTimer ==
  /\ autoRunScheduled <=> DebounceTimers # {}
  /\ Cardinality(DebounceTimers) <= 1
  /\ \A r \in 1..Len(runs) : \A i \in 1..Len(runs[r].batch) :
        bodies[runs[r].batch[i].fn].domReady => runs[r].trigger = "debounce"

\* C8 as amended: the flag is true exactly while a debounce timer is
\* pending, there is never a second debounce timer, a registration made
\* while one is pending creates no timer, a debounce timer is pending as
\* long as a test registered after DOMContentLoaded is queued, a trigger
\* starts at most one run and that run takes the whole queue, and the
\* debounce timer that finds tests queued starts the run that takes them.
C8_FlagAndQueue ==
  /\ autoRunScheduled <=> DebounceTimers # {}
  /\ Cardinality(DebounceTimers) <= 1
  /\ \A i \in 1..Len(testQueue) :
        bodies[testQueue[i].fn].domReady => autoRunScheduled

C8_Debounced ==
  [][ /\ C8_FlagAndQueue'
      /\ (Len(bodies') > Len(bodies) /\ autoRunScheduled) => timers' = timers
      /\ Len(runs') > Len(runs) =>
           /\ Len(runs') = Len(runs) + 1
           /\ runs'[Len(runs')].batch = testQueue
           /\ testQueue' = << >>
      /\ (DebounceTimers # {} /\ DebounceTimers' = {} /\ testQueue # << >>) =>
           /\ Len(runs') = Len(runs) + 1
           /\ runs'[Len(runs')].trigger = "debounce" ]_vars

\* C8 witness: two tests registered after DOMContentLoaded within one
\* debounce window were run together by the run the timer triggered.
C8_Witness ==
  \E r \in Reported :
    /\ runs[r].trigger = "debounce"
    /\ Len(runs[r].batch) = 2
    /\ \A i \in 1..2 : bodies[runs[r].batch[i].fn].domReady

\* C9: a step taken with an empty pending queue, other than the settling of
\* a body of a run in flight, changes neither the counters, the results,
\* the start time nor the output, and starts no run: a trigger that finds
\* the queue empty is a no-op.
C9_EmptyRunIsNoOp ==
  [][ ( /\ Len(testQueue) = 0
        /\ \A r \in 1..Len(runs) : runs'[r] = runs[r] )
      => /\ UNCHANGED << passed, failed, total, testResults, startTime,
                         console, alerts, testCompleted, runs >>
         /\ (testQueue' = testQueue \/ Len(bodies') > Len(bodies)) ]_vars

\* C9 witness: the debounce timer set by DOMContentLoaded ran everything
\* that was registered, the load timer fired after it and found the queue
\* empty, and the console holds the lines of one run only.
C9_Witness ==
  /\ Len(runs) = 1 /\ runs[1].state = "done" /\ runs[1].trigger = "debounce"
  /\ loadFired /\ timers = << >> /\ testQueue = << >>
  /\ Len(bodies) > 0
  /\ \A id \in 1..Len(bodies) : ~bodies[id].domReady
  /\ Cardinality({ i \in 1..Len(console) : console[i].text = << "Running tests..." >> }) = 1

\* ------------------------------------------------ string methods, on tokens
\* String.prototype.startsWith.
StartsWith(text, prefix) ==
  /\ Len(text) >= Len(prefix)
  /\ SubSeq(text, 1, Len(prefix)) = prefix

\* pat occurs in text at position p.
OccursAt(text, pat, p) ==
  /\ p >= 1 /\ p + Len(pat) - 1 <= Len(text)
  /\ SubSeq(text, p, p + Len(pat) - 1) = pat

\* String.prototype.includes.
Includes(text, pat) == \E p \in 1..(Len(text) + 1) : OccursAt(text, pat, p)

\* text.replace(pat, ""): the first occurrence of pat is taken out.
ReplaceFirst(text, pat) ==
  IF ~Includes(text, pat) THEN text
  ELSE LET p == CHOOSE q \in 1..(Len(text) + 1) :
                  /\ OccursAt(text, pat, q)
                  /\ \A o \in 1..(q - 1) : ~OccursAt(text, pat, o)
       IN  SubSeq(text, 1, p - 1) \o SubSeq(text, p + Len(pat), Len(text))

Whitespace == { " ", "  ", NL }

\* String.prototype.trim.
Trim(text) ==
  LET solid == { i \in 1..Len(text) : text[i] \notin Whitespace }
  IN  IF solid = {} THEN << >>
      ELSE SubSeq(text,
                  CHOOSE i \in solid : \A j \in solid : i <= j,
                  CHOOSE i \in solid : \A j \in solid : i >= j)

IsDigit(token) == \E d \in 1..Len(Digits) : Digits[d] = token
DigitValue(token) == (CHOOSE d \in 1..Len(Digits) : Digits[d] = token) - 1

RECURSIVE ParseInt(_)
\* parseInt of a run of digits.
ParseInt(digits) ==
  IF Len(digits) = 0 THEN 0
  ELSE 10 * ParseInt(SubSeq(digits, 1, Len(digits) - 1))
         + DigitValue(digits[Len(digits)])

\* text.match(/label (\d+)/): whether it matches, and the number captured
\* (the longest run of digits after the first place where label is
\* followed by a digit).
MatchNumber(text, label) ==
  LET hits == { p \in 1..Len(text) :
                  /\ OccursAt(text, label, p)
                  /\ p + Len(label) <= Len(text)
                  /\ IsDigit(text[p + Len(label)]) }
  IN  IF hits = {} THEN [ found |-> FALSE, value |-> 0 ]
      ELSE LET p     == CHOOSE q \in hits : \A o \in hits : q <= o
               first == p + Len(label)
               last  == CHOOSE e \in first..Len(text) :
                          /\ \A d \in first..e : IsDigit(text[d])
                          /\ (e = Len(text) \/ ~IsDigit(text[e + 1]))
           IN  [ found |-> TRUE, value |-> ParseInt(SubSeq(text, first, last)) ]

\* ------------------------------------------------------- claims C11 and C12
\* The lines logSummary wrote for run r.
ReportLines(r) == SubSeq(console, runs[r].report.from, runs[r].report.to)

\* The line that tells that nothing failed.
AllClear(lines) ==
  \E i \in 1..Len(lines) : Includes(lines[i].text, << "All tests passed" >>)

\* C11: every report ends in exactly one of two ways: with failed > 0 the
\* alert is raised and no line with "All tests passed" is written; with
\* failed = 0 that line is written and no alert is raised.
C11_ReportEndsOneWay ==
  \A r \in Reported :
    LET report == runs[r].report
    IN  /\ report.failed > 0 => /\ report.alerts = 1
                                /\ ~AllClear(ReportLines(r))
        /\ report.failed = 0 => /\ AllClear(ReportLines(r))
                                /\ report.alerts = 0

\* The lines of a report that begin with the pass or the fail marker and
\* were written for a case (console.info / console.error), in order.
IsCaseLine(line) ==
  \/ line.level = "info"  /\ StartsWith(line.text, << PassMark, " " >>)
  \/ line.level = "error" /\ StartsWith(line.text, << FailMark, " " >>)

CaseLinePositions(lines) == { i \in 1..Len(lines) : IsCaseLine(lines[i]) }

\* The position in lines of the line with exactly this text, 0 if none.
PositionOf(lines, text) ==
  IF \E i \in 1..Len(lines) : lines[i].text = text
    THEN CHOOSE i \in 1..Len(lines) : lines[i].text = text
    ELSE 0

\* C12: within the lines of one report the "Tests: total" header is the
\* first line; then comes one marker line per entry of the results, in
\* execution order, a pass marker for a passed entry and a fail marker for
\* a failed one; then the "Passed: n" line, and the "Failed: n" line when
\* failed > 0; every case line lies between the header and the summary.
C12_HeaderCasesSummary ==
  \A r \in Reported :
    LET report  == runs[r].report
        lines   == ReportLines(r)
        cases   == CaseLinePositions(lines)
        nth(k)  == CHOOSE i \in cases : Cardinality({ j \in cases : j < i }) = k - 1
        passedAt == PositionOf(lines, << PassMark, " ", "Passed:", " " >>
                                        \o NumText(report.passed))
        failedAt == PositionOf(lines, << FailMark, " ", "Failed:", " " >>
                                        \o NumText(report.failed))
    IN  /\ Len(lines) > 0
        /\ lines[1].text = << NL, Chart, " ", "Tests:", " " >> \o NumText(report.total)
        /\ Cardinality(cases) = Len(report.results)
        /\ \A k \in 1..Len(report.results) :
              lines[nth(k)].text =
                << IF report.results[k].passed THEN PassMark ELSE FailMark, " " >>
                  \o report.results[k].name
        /\ passedAt > 0
        /\ \A i \in cases : 1 < i /\ i < passedAt
        /\ report.failed > 0 => failedAt = passedAt + 1
        /\ report.failed = 0 => failedAt = 0

\* ------------------------------------------------------ extractTestResults
MaxLines == 3

PassPrefix == << PassMark, " " >>
FailPrefix == << FailMark, " " >>
HeaderLabel == << Chart, " ", "Tests:" >>
Placeholder == "Test assertion failed"

\* The records pushed by the code have an error property only when they
\* are failed ones from a marker line; "absent" stands for its absence.
Record(name, status, error) == [ name |-> name, status |-> status, error |-> error ]

\* (mutant) the names are not trimmed.
ScanLineUntrimmed(acc, text) ==
  LET match == MatchNumber(text, HeaderLabel \o << " " >>)
      tot   == IF Includes(text, HeaderLabel) /\ match.found
                 THEN match.value ELSE acc.totalTests
  IN  IF StartsWith(text, PassPrefix)
        THEN [ results     |-> Append(acc.results,
                                 Record(ReplaceFirst(text, PassPrefix), "passed", "absent")),
               totalTests  |-> tot,
               passedTests |-> acc.passedTests + 1 ]
      ELSE IF StartsWith(text, FailPrefix)
        THEN [ results     |-> Append(acc.results,
                                 Record(ReplaceFirst(text, FailPrefix), "failed", Placeholder)),
               totalTests  |-> tot,
               passedTests |-> acc.passedTests ]
      ELSE [ results |-> acc.results, totalTests |-> tot,
             passedTests |-> acc.passedTests ]

\* (mutant) lines that begin with the fail marker are passed over.
ScanLineSkipsFailures(acc, text) ==
  LET match == MatchNumber(text, HeaderLabel \o << " " >>)
      tot   == IF Includes(text, HeaderLabel) /\ match.found
                 THEN match.value ELSE acc.totalTests
  IN  IF StartsWith(text, PassPrefix)
        THEN [ results     |-> Append(acc.results,
                                 Record(Trim(ReplaceFirst(text, PassPrefix)),
                                        "passed", "absent")),
               totalTests  |-> tot,
               passedTests |-> acc.passedTests + 1 ]
      ELSE [ results |-> acc.results, totalTests |-> tot,
             passedTests |-> acc.passedTests ]

\* One turn of the loop over the messages (lines 127-168).  The two last
\* tests of the loop body ("Passed:" and "All tests passed") only write to
\* the supervisor's own console and leave results, totalTests and
\* passedTests alone.
ScanLine(acc, text) ==
  LET match == MatchNumber(text, HeaderLabel \o << " " >>)
      tot   == IF Includes(text, HeaderLabel) /\ match.found
                 THEN match.value ELSE acc.totalTests
  IN  IF StartsWith(text, PassPrefix)
        THEN [ results     |-> Append(acc.results,
                                 Record(Trim(ReplaceFirst(text, PassPrefix)),
                                        "passed", "absent")),
               totalTests  |-> tot,
               passedTests |-> acc.passedTests + 1 ]
      ELSE IF StartsWith(text, FailPrefix)
        THEN [ results     |-> Append(acc.results,
                                 Record(Trim(ReplaceFirst(text, FailPrefix)),
                                        "failed", Placeholder)),
               totalTests  |-> tot,
               passedTests |-> acc.passedTests ]
      ELSE [ results |-> acc.results, totalTests |-> tot,
             passedTests |-> acc.passedTests ]

RECURSIVE ScanLines(_, _, _)
\* The loop from message i on.
ScanLines(msgs, i, acc) ==
  IF i > Len(msgs) THEN acc
  ELSE ScanLines(msgs, i + 1, ScanLine(acc, msgs[i].text))

ScanStart == [ results |-> << >>, totalTests |-> 0, passedTests |-> 0 ]

\* The generic entries of lines 172-180.
GenericEntries(totalTests, passedTests) ==
  [ i \in 1..totalTests |->
      Record(<< "Browser", " ", "Test", " " >> \o NumText(i),
             IF i <= passedTests THEN "passed" ELSE "failed",
             "absent") ]

\* extractTestResults(consoleMessages).
ExtractTestResults(msgs) ==
  LET scan == ScanLines(msgs, 1, ScanStart)
  IN  IF Len(scan.results) = 0 /\ scan.totalTests > 0
        THEN GenericEntries(scan.totalTests, scan.passedTests)
        ELSE scan.results

\* What the page may have written: the lines of the reporter, a case line
\* with blanks around the name, and an ordinary diagnostic line.
CapturedTexts ==
  { << NL, Chart, " ", "Tests:", " ", "3" >>,
    << PassMark, " ", "a" >>,
    << PassMark, " ", " ", "b", " " >>,
    << FailMark, " ", "b" >>,
    << PassMark, " ", "Passed:", " ", "1" >>,
    << FailMark, " ", "Failed:", " ", "2" >>,
    << "  ", "message" >>,
    << NL, PassMark, " ", "All tests passed" >> }

Captured == { [ type |-> "log", text |-> t ] : t \in CapturedTexts }

ExtractInit ==
  /\ RunnerInit /\ DiffIdle /\ SandboxIdle
  /\ consoleMessages \in UNION { [ 1..n -> Captured ] : n \in 0..MaxLines }
  /\ extracted = NotExtracted

\* The supervisor calls extractTestResults on what it captured.
Extract ==
  /\ ~extracted.done
  /\ extracted' = [ done    |-> TRUE,
                    records |-> ExtractTestResults(consoleMessages),
                    scanned |-> ScanLines(consoleMessages, 1, ScanStart).results ]
  /\ UNCHANGED << runnerVars, consoleMessages, diffVars, sandboxVars >>

ExtractNext == Extract

ExtractSpec == ExtractInit /\ [][ExtractNext]_vars

\* The messages that begin with a marker, and the k-th of them.
MarkerLines(msgs) ==
  { i \in 1..Len(msgs) : \/ StartsWith(msgs[i].text, PassPrefix)
                         \/ StartsWith(msgs[i].text, FailPrefix) }

NthOf(positions, k) ==
  CHOOSE i \in positions : Cardinality({ j \in positions : j < i }) = k - 1

\* C13: the scan yields one record per line that begins with a marker, in
\* line order: "passed" for the pass marker, "failed" with the placeholder
\* for the fail marker, named by the rest of the line, trimmed; lines that
\* begin with neither marker yield nothing; and when there is such a line
\* the records of the scan are what extractTestResults returns.
C13_OneRecordPerMarkerLine ==
  extracted.done =>
    LET marked == MarkerLines(consoleMessages)
        text(k) == consoleMessages[NthOf(marked, k)].text
    IN  /\ Len(extracted.scanned) = Cardinality(marked)
        /\ \A k \in 1..Len(extracted.scanned) :
              /\ extracted.scanned[k].name = Trim(SubSeq(text(k), 3, Len(text(k))))
              /\ text(k)[1] = PassMark
                   => /\ extracted.scanned[k].status = "passed"
                      /\ extracted.scanned[k].error = "absent"
              /\ text(k)[1] = FailMark
                   => /\ extracted.scanned[k].status = "failed"
                      /\ extracted.scanned[k].error = Placeholder
        /\ marked # {} => extracted.records = extracted.scanned

\* C13 witness: three captured lines, one that begins with neither marker,
\* a pass line with blanks around its name and a fail line, gave the two
\* records "b" passed and "b" failed.
C13_Witness ==
  /\ extracted.done
  /\ Len(consoleMessages) = 3
  /\ consoleMessages[1].text = << "  ", "message" >>
  /\ consoleMessages[2].text = << PassMark, " ", " ", "b", " " >>
  /\ extracted.records = << Record(<< "b" >>, "passed", "absent"),
                            Record(<< "b" >>, "failed", Placeholder) >>

\* The summary lines of the reporter, which carry a marker of their own.
IsSummaryLine(text) ==
  \/ StartsWith(text, << PassMark, " ", "Passed:" >>)
  \/ StartsWith(text, << FailMark, " ", "Failed:" >>)

PerCaseLines(msgs) == { i \in MarkerLines(msgs) : ~IsSummaryLine(msgs[i].text) }

Headers(msgs) ==
  { i \in 1..Len(msgs) : MatchNumber(msgs[i].text, HeaderLabel \o << " " >>).found }

PassedLines(msgs) ==
  { i \in 1..Len(msgs) : MatchNumber(msgs[i].text, << "Passed:", " " >>).found }

\* C14: when no captured line is a per-case line and the header gives a
\* total T > 0, extractTestResults returns T records named "Test 1" ..
\* "Test T", the first passedCount of them passed and the rest failed,
\* where passedCount is the n of the "Passed: n" line, or 0 without one.
C14_SyntheticRecords ==
  ( /\ extracted.done
    /\ PerCaseLines(consoleMessages) = {}
    /\ Headers(consoleMessages) # {} )
  => LET msgs  == consoleMessages
         h     == CHOOSE i \in Headers(msgs) : \A j \in Headers(msgs) : j <= i
         T     == MatchNumber(msgs[h].text, HeaderLabel \o << " " >>).value
         passedCount ==
           IF PassedLines(msgs) = {} THEN 0
           ELSE MatchNumber(msgs[CHOOSE i \in PassedLines(msgs) : TRUE].text,
                            << "Passed:", " " >>).value
     IN  T > 0 =>
           extracted.records =
             [ i \in 1..T |->
                 Record(<< "Test", " " >> \o NumText(i),
                        IF i <= passedCount THEN "passed" ELSE "failed",
                        "absent") ]

\* --------------------------------------------- the reporter and the extractor
MaxResults == 2

\* The entries testResults may hold when logSummary is called: up to
\* MaxResults settled cases, each passed or failed with a caught value.
Entry(k, name, outcome) ==
  [ name |-> name, passed |-> outcome = "ok",
    error |-> IF outcome = "ok" THEN "none" ELSE outcome, fn |-> k ]

ResultLists ==
  UNION { { [ k \in 1..n |-> Entry(k, nm[k], out[k]) ] :
              nm \in [ 1..n -> { Names[i] : i \in 1..Len(Names) } ],
              out \in [ 1..n -> Values \cup { "ok" } ] } :
          n \in 0..MaxResults }

\* A runner about to report: the counters count the entries (start() resets
\* them together and every settled case adds to both), total is the size of
\* the batch the last start() took.
ReportInit ==
  /\ testResults \in ResultLists
  /\ passed = Cardinality({ k \in 1..Len(testResults) : testResults[k].passed })
  /\ failed = Cardinality({ k \in 1..Len(testResults) : ~testResults[k].passed })
  /\ total \in 1..MaxResults
  /\ startTime = 0 /\ now = 0 /\ testQueue = << >>
  /\ autoRunScheduled = FALSE /\ domContentLoaded = TRUE
  /\ timers = << >> /\ loadFired = TRUE
  /\ console = << >> /\ alerts = << >> /\ testCompleted = FALSE
  /\ runs = << >> /\ bodies = << >>
  /\ ExtractIdle /\ DiffIdle /\ SandboxIdle

\* `return await this.logSummary();`
Report ==
  /\ console = << >>
  /\ LET rep == LogSummary([ passed |-> passed, failed |-> failed,
                             testResults |-> testResults ], total, startTime, now)
     IN  /\ console' = rep.lines
         /\ alerts' = rep.alerts
         /\ testCompleted' = rep.completed
  /\ UNCHANGED << passed, failed, total, startTime, testResults, testQueue,
                  autoRunScheduled, domContentLoaded, timers, loadFired, now,
                  runs, bodies, extractVars, diffVars, sandboxVars >>

\* The console messages the supervisor captures for lines written by the
\* page: page.on("console", msg => push({type: msg.type(), text: msg.text()})).
ToMessages(lines) ==
  [ i \in 1..Len(lines) |-> [ type |-> lines[i].level, text |-> lines[i].text ] ]

\* The supervisor stops waiting and extracts the records from what the
\* page has written so far.
Supervise ==
  /\ ~extracted.done
  /\ consoleMessages' = ToMessages(console)
  /\ extracted' = [ done    |-> TRUE,
                    records |-> ExtractTestResults(ToMessages(console)),
                    scanned |-> ScanLines(ToMessages(console), 1, ScanStart).results ]
  /\ UNCHANGED << runnerVars, diffVars, sandboxVars >>

ReportNext == Report \/ Supervise

ReportSpec == ReportInit /\ [][ReportNext]_vars

\* The three checks of the supervisor over the extracted records: some
\* record was captured, every record is "passed", no record is "failed".
SupervisorPasses(records) ==
  /\ Len(records) > 0
  /\ \A k \in 1..Len(records) : records[k].status = "passed"
  /\ Cardinality({ k \in 1..Len(records) : records[k].status = "failed" }) = 0

\* C15: extractTestResults applied to the lines logSummary wrote for a run
\* gives one record per entry of the run's results and no other, in
\* execution order, with the entry's name, "passed" exactly for the passed
\* entries.
C15_RoundTrip ==
  (extracted.done /\ Len(consoleMessages) > 0) =>
    /\ Len(extracted.records) = Len(testResults)
    /\ \A k \in 1..Len(extracted.records) :
          /\ extracted.records[k].name = testResults[k].name
          /\ (extracted.records[k].status = "passed") <=> testResults[k].passed

\* C16: the supervisor's checks over the records extracted from the lines
\* of a reported run (total >= 1) succeed exactly when the run's failed
\* count is 0; and when no record at all is extracted they fail.
C16_VerdictFollowsFailed ==
  extracted.done =>
    /\ Len(consoleMessages) > 0 =>
         (total >= 1 => (SupervisorPasses(extracted.records) <=> failed = 0))
    /\ Len(extracted.records) = 0 => ~SupervisorPasses(extracted.records)

\* C16 witness: a run of two cases, the first passed and the second failed
\* with a value that has no message, has reported, and the supervisor's
\* checks over its lines fail.
C16_Witness ==
  /\ extracted.done /\ Len(consoleMessages) > 0
  /\ Len(testResults) = 2
  /\ testResults[1].passed /\ testResults[2].error = "null"
  /\ failed = 1
  /\ ~SupervisorPasses(extracted.records)

\* ------------------------------------------------------------- withSandbox
MaxSandboxCalls == 3

\* What document.querySelector finds for the sandbox template: no template,
\* a template with the sandbox section, a template without it.
Templates == { "none", "section", "empty" }

\* The sandbox of call c: the div made for it, the section cloned for it,
\* or null (0) when the template has no such section.
SandboxOf(c, template) == IF template = "empty" THEN 0 ELSE c

\* document.body.appendChild(node); with null it throws a TypeError.
AppendChild(children, node) ==
  IF node = 0 THEN [ children |-> children, threw |-> TRUE ]
  ELSE [ children |-> children \cup { node }, threw |-> FALSE ]

\* document.body.removeChild(node); it throws a NotFoundError for a node
\* that is not a child.
RemoveChild(children, node) ==
  IF node \in children THEN [ children |-> children \ { node }, threw |-> FALSE ]
  ELSE [ children |-> children, threw |-> TRUE ]

\* (mutant) the sandbox is removed after a normal return only.
ReleaseOnReturnOnly(children, node, outcome) ==
  IF outcome = "return" THEN RemoveChild(children, node)
  ELSE [ children |-> children, threw |-> FALSE ]

\* try { ... } finally { document.body.removeChild(sandbox); }: the finally
\* block runs whatever the outcome of the callback is.
Release(children, node, outcome) == RemoveChild(children, node)

\* How withSandbox ends, given the callback's outcome and whether the
\* finally block threw.
Ending(outcome, releaseThrew) ==
  IF outcome = "return" /\ ~releaseThrew THEN "returned" ELSE "threw"

\* withSandbox(fn) up to its await: the callback throws at once, or it
\* returns a value or a promise that is awaited.
WithSandbox ==
  /\ Len(calls) < MaxSandboxCalls
  /\ \E template \in Templates : \E sync \in { "throw", "await" } :
       LET c        == Len(calls) + 1
           sandbox  == SandboxOf(c, template)
           appended == AppendChild(bodyChildren, sandbox)
           call     == [ sandbox |-> sandbox, template |-> template,
                         state |-> "awaiting", outcome |-> "pending",
                         attachedAtCall |-> sandbox \in appended.children,
                         detachedByFn |-> FALSE ]
       IN  IF appended.threw
             THEN /\ calls' = Append(calls, [ call EXCEPT !.state = "threw",
                                                          !.outcome = "none" ])
                  /\ bodyChildren' = appended.children
           ELSE IF sync = "throw"
             THEN LET released == Release(appended.children, sandbox, "throw")
                  IN  /\ calls' = Append(calls,
                                    [ call EXCEPT !.state = Ending("throw", released.threw),
                                                  !.outcome = "throw" ])
                      /\ bodyChildren' = released.children
           ELSE /\ calls' = Append(calls, call)
                /\ bodyChildren' = appended.children
  /\ UNCHANGED << runnerVars, extractVars, diffVars >>

\* The callback of call c, while it runs, takes the sandbox out of the
\* document itself.
FnDetaches(c) ==
  /\ c \in 1..Len(calls)
  /\ calls[c].state = "awaiting" /\ ~calls[c].detachedByFn
  /\ calls' = [ calls EXCEPT ![c].detachedByFn = TRUE ]
  /\ bodyChildren' = bodyChildren \ { calls[c].sandbox }
  /\ UNCHANGED << runnerVars, extractVars, diffVars >>

\* The value or promise awaited by call c settles: the finally block runs
\* and withSandbox returns or throws.
FnSettles(c, outcome) ==
  /\ c \in 1..Len(calls)
  /\ calls[c].state = "awaiting"
  /\ LET released == Release(bodyChildren, calls[c].sandbox, outcome)
     IN  /\ bodyChildren' = released.children
         /\ calls' = [ calls EXCEPT ![c].state = Ending(outcome, released.threw),
                                    ![c].outcome = outcome ]
  /\ UNCHANGED << runnerVars, extractVars, diffVars >>

SandboxNext ==
  \/ WithSandbox
  \/ \E c \in 1..MaxSandboxCalls : FnDetaches(c)
  \/ \E c \in 1..MaxSandboxCalls : \E outcome \in { "return", "reject" } :
       FnSettles(c, outcome)

SandboxSpec == Init /\ [][SandboxNext]_vars

\* C17: once a withSandbox call has returned or thrown, the sandbox it
\* attached is not a child of the document body, whatever the exit path of
\* the callback was; the sandbox was attached when the callback was called,
\* and it is attached for as long as the callback runs (unless the callback
\* itself takes it out).
C17_SandboxReleased ==
  \A c \in 1..Len(calls) :
    /\ calls[c].state \in { "returned", "threw" }
         => calls[c].sandbox \notin bodyChildren
    /\ calls[c].outcome # "none" => calls[c].attachedAtCall
    /\ (calls[c].state = "awaiting" /\ ~calls[c].detachedByFn)
         => calls[c].sandbox \in bodyChildren

\* C17 witness: three calls have ended, one by a normal return, one by a
\* synchronous throw and one by a rejected promise, while each had its
\* sandbox attached; nothing is left in the body.
C17_Witness ==
  /\ Len(calls) = 3
  /\ \A c \in 1..3 : calls[c].state # "awaiting" /\ calls[c].attachedAtCall
  /\ \E c \in 1..3 : calls[c].outcome = "return" /\ calls[c].state = "returned"
  /\ \E c \in 1..3 : calls[c].outcome = "throw"
  /\ \E c \in 1..3 : calls[c].outcome = "reject"
  /\ bodyChildren = {}

\* -------------------------------------------------------- assert.deepEqual
MaxNum == 3

\* Values: numbers, undefined, null, and objects.  Two objects are the
\* same object (===) when they are the same copy with the same properties;
\* Absent marks a key that an object does not have.
Undefined == [ kind |-> "undefined" ]
Null      == [ kind |-> "null" ]
Absent    == [ kind |-> "absent" ]
Num(n)    == [ kind |-> "number", num |-> n ]
Obj(copy, a, b, c) ==
  [ kind |-> "object", copy |-> copy, props |-> [ a |-> a, b |-> b, c |-> c ] ]

Copies   == { 1, 2 }
Prims    == { Undefined, Null } \cup { Num(n) : n \in 1..MaxNum }
Inner    == { Obj(copy, Absent, Absent, c) :
                copy \in Copies, c \in Prims \cup { Absent } }
Outer    == { Obj(copy, a, b, Absent) :
                copy \in Copies, a \in Prims \cup { Absent },
                b \in Prims \cup Inner \cup { Absent } }
Operands == Prims \cup Outer

\* The order in which Object.keys lists the keys an object has.
KeyOrder == << "a", "b", "c" >>

\* `value != null && typeof value === "object"`
IsObject(value) == value.kind = "object"

\* Object.keys(o).
ObjectKeys(o) == SelectSeq(KeyOrder, LAMBDA k : o.props[k] # Absent)

\* o[key]: undefined for a key the object does not have.
Get(o, key) == IF o.props[key] = Absent THEN Undefined ELSE o.props[key]

\* (mutant) only the keys of the first operand are visited.
KeysOfFirst(a, b) == ObjectKeys(a)

\* new Set([...Object.keys(a), ...Object.keys(b)]), in iteration order.
KeyUnion(a, b) ==
  ObjectKeys(a) \o SelectSeq(ObjectKeys(b), LAMBDA k : a.props[k] = Absent)

\* (mutant) two objects are never looked into.
DiffShallow(a, b, path) ==
  IF a = b THEN << >>
  ELSE IF ~IsObject(a) \/ ~IsObject(b)
    THEN << [ path |-> path, actual |-> a, expected |-> b ] >>
  ELSE << >>

RECURSIVE Diff(_, _, _)
RECURSIVE DiffKeys(_, _, _, _, _)
\* function* diff(a, b, path = []): the Differences it yields, in order.
Diff(a, b, path) ==
  IF a = b THEN << >>
  ELSE IF ~IsObject(a) \/ ~IsObject(b)
    THEN << [ path |-> path, actual |-> a, expected |-> b ] >>
  ELSE DiffKeys(a, b, path, KeyUnion(a, b), 1)

\* The for loop of diff over keys, from the i-th key on.
DiffKeys(a, b, path, keys, i) ==
  IF i > Len(keys) THEN << >>
  ELSE Diff(Get(a, keys[i]), Get(b, keys[i]), Append(path, keys[i]))
         \o DiffKeys(a, b, path, keys, i + 1)

\* assert.deepEqual(actual, expected): whether it throws, and the
\* differences the AssertionError carries.
DeepEqual(a, b) ==
  LET differences == Diff(a, b, << >>)
  IN  IF Len(differences) > 0
        THEN [ called |-> TRUE, raised |-> TRUE, differences |-> differences ]
        ELSE [ called |-> TRUE, raised |-> FALSE, differences |-> << >> ]

DiffInit ==
  /\ RunnerInit /\ ExtractIdle /\ SandboxIdle
  /\ actual \in Operands /\ expected \in Operands
  /\ deepEqualResult = NotCalled

CallDeepEqual ==
  /\ ~deepEqualResult.called
  /\ deepEqualResult' = DeepEqual(actual, expected)
  /\ UNCHANGED << runnerVars, extractVars, actual, expected, sandboxVars >>

DiffNext == CallDeepEqual

DiffSpec == DiffInit /\ [][DiffNext]_vars

\* Key paths, and the value an operand has at a path (Undefined for a key
\* that is missing at the last step).
Paths == { << >> } \cup { << k >> : k \in { "a", "b", "c" } }
           \cup { << k, l >> : k, l \in { "a", "b", "c" } }

RECURSIVE ValueAt(_, _)
ValueAt(value, path) ==
  IF Len(path) = 0 THEN value
  ELSE Get(ValueAt(value, SubSeq(path, 1, Len(path) - 1)), path[Len(path)])

\* Both operands have a value at the path: above it both hold objects.
InBoth(path) ==
  \A n \in 0..(Len(path) - 1) :
    /\ IsObject(ValueAt(actual, SubSeq(path, 1, n)))
    /\ IsObject(ValueAt(expected, SubSeq(path, 1, n)))

DifferencesAt(path) ==
  { i \in 1..Len(deepEqualResult.differences) :
      deepEqualResult.differences[i].path = path }

\* C18: deepEqual raises exactly when diff yields a Difference; the failure
\* carries the list diff yields; and for every key path at which the two
\* operands hold values that are not strictly equal, one of them at least
\* a primitive, the list has exactly one Difference with that path, made of
\* those two values (and the list has no other Difference).
C18_RaisesWithDifferences ==
  deepEqualResult.called =>
    /\ deepEqualResult.raised <=> Len(Diff(actual, expected, << >>)) > 0
    /\ deepEqualResult.raised
         => deepEqualResult.differences = Diff(actual, expected, << >>)
    /\ \A path \in Paths :
         IF /\ InBoth(path)
            /\ ValueAt(actual, path) # ValueAt(expected, path)
            /\ \/ ~IsObject(ValueAt(actual, path))
               \/ ~IsObject(ValueAt(expected, path))
           THEN /\ Cardinality(DifferencesAt(path)) = 1
                /\ \A i \in DifferencesAt(path) :
                     /\ deepEqualResult.differences[i].actual = ValueAt(actual, path)
                     /\ deepEqualResult.differences[i].expected = ValueAt(expected, path)
           ELSE DifferencesAt(path) = {}

\* C18 witness: {a: 1, b: {c: 2}} against {a: 1, b: {c: 3}} raised with the
\* single Difference at path [b, c], actual 2, expected 3.
C18_Witness ==
  /\ deepEqualResult.raised
  /\ actual = Obj(1, Num(1), Obj(1, Absent, Absent, Num(2)), Absent)
  /\ expected = Obj(2, Num(1), Obj(2, Absent, Absent, Num(3)), Absent)
  /\ deepEqualResult.differences =
       << [ path |-> << "b", "c" >>, actual |-> Num(2), expected |-> Num(3) ] >>

\* The keys that one of two objects has and the other has not.
OwnInOne(a, b) ==
  { k \in { "a", "b", "c" } : (a.props[k] = Absent) # (b.props[k] = Absent) }

\* The value such a key holds in the object that has it.
HeldAt(a, b, k) == IF a.props[k] # Absent THEN a.props[k] ELSE b.props[k]

\* The paths at which diff compares two different objects key by key.
ComparedObjects ==
  { path \in Paths : /\ Len(path) < 2
                     /\ InBoth(path)
                     /\ IsObject(ValueAt(actual, path))
                     /\ IsObject(ValueAt(expected, path))
                     /\ ValueAt(actual, path) # ValueAt(expected, path) }

\* C19 as stated: wherever diff compares two objects, every key that one
\* of them has and the other has not yields exactly one Difference at
\* path + [key], whatever value the key holds.
C19_MissingKeyAlwaysDiffers ==
  deepEqualResult.called =>
    \A path \in ComparedObjects :
      \A k \in OwnInOne(ValueAt(actual, path), ValueAt(expected, path)) :
        Cardinality(DifferencesAt(Append(path, k))) = 1

\* C19 amended: wherever diff compares two objects, a key that one of them
\* has and the other has not yields exactly one Difference at path + [key]
\* when the value it holds is not undefined, and none when it is undefined.
C19_MissingKeyDiffersUnlessUndefined ==
  deepEqualResult.called =>
    \A path \in ComparedObjects :
      LET a == ValueAt(actual, path)
          b == ValueAt(expected, path)
      IN  \A k \in OwnInOne(a, b) :
            Cardinality(DifferencesAt(Append(path, k))) =
              IF HeldAt(a, b, k) = Undefined THEN 0 ELSE 1

\* C19 witness: {b: {c: undefined}} against {a: null, b: {}} raised with the
\* single Difference at [a], where null is expected and nothing is held;
\* the key c, held with undefined on one side only, gave none.
C19_Witness ==
  /\ deepEqualResult.called
  /\ actual = Obj(1, Absent, Obj(1, Absent, Absent, Undefined), Absent)
  /\ expected = Obj(1, Null, Obj(1, Absent, Absent, Absent), Absent)
  /\ deepEqualResult.differences =
       << [ path |-> << "a" >>, actual |-> Undefined, expected |-> Null ] >>

\* ---------------------------------------------------------- automatic runs
\* The page as it runs when no script calls runPendingTests itself: runs
\* are started by the two timers only.
AutoNext ==
  \/ EnqueueTest
  \/ DOMContentLoaded
  \/ Load
  \/ Tick
  \/ \E i \in 1..Len(timers) : FireTimer(i)
  \/ \E r \in 1..Len(runs) : \E outcome \in {"ok"} \cup Values : Resume(r, outcome)

AutoSpec == Init /\ [][AutoNext]_vars

\* Both signals have fired, no timer is pending, no run is in flight and
\* nothing is queued: every body that was started has completed, and
\* nothing more happens unless a test is registered.
Quiescent ==
  /\ domContentLoaded /\ loadFired
  /\ timers = << >>
  /\ Running = {}
  /\ testQueue = << >>

\* C20: once the page is quiescent, every test that was registered has
\* been executed and its line has been written in a report.
C20_AllReportedWhenQuiet ==
  Quiescent =>
    \A id \in 1..Len(bodies) :
      /\ bodies[id].invoked > 0
      /\ bodies[id].reported > 0

\* ------------------------------------------------ counters and the results
\* C26: in every reachable state passed + failed is the number of entries
\* of testResults, passed is the number of entries that passed and failed
\* the number of entries that did not.
C26_CountersCountResults ==
  /\ passed + failed = Len(testResults)
  /\ passed = Cardinality({ k \in 1..Len(testResults) : testResults[k].passed })
  /\ failed = Cardinality({ k \in 1..Len(testResults) : ~testResults[k].passed })

\* C26 witness: testResults holds a passed and a failed entry that were
\* settled by two different runs (the runs overlapped).
C26_Witness ==
  /\ Len(testResults) = 2
  /\ passed = 1 /\ failed = 1
  /\ \E r1, r2 \in 1..Len(runs) :
       /\ r1 # r2
       /\ \E i \in 1..Len(runs[r1].batch) : runs[r1].batch[i].fn = testResults[1].fn
       /\ \E i \in 1..Len(runs[r2].batch) : runs[r2].batch[i].fn = testResults[2].fn

\* ------------------------------------------------------- a run's life cycle
\* Every body of the batch of run r has completed, normally or by raising.
BatchSettled(r) ==
  \A i \in 1..Len(runs[r].batch) : bodies[runs[r].batch[i].fn].settled > 0

\* Some line of lines begins with these tokens.
HasLine(lines, prefix) == \E i \in 1..Len(lines) : StartsWith(lines[i].text, prefix)

\* C21: a run whose bodies have all completed, normally or by raising any
\* value, has reported and returned (its promise is fulfilled), and its
\* report is complete: the header, one case line per result, the "Passed:"
\* and "Duration:" lines and the closing line.
C21_SettledBatchReportsInFull ==
  \A r \in 1..Len(runs) :
    BatchSettled(r) =>
      /\ runs[r].state = "done"
      /\ runs[r].ret \in { "true", "false" }
      /\ LET lines == ReportLines(r)
         IN  /\ HasLine(lines, << NL, Chart, " ", "Tests:" >>)
             /\ Cardinality(CaseLinePositions(lines)) = Len(runs[r].report.results)
             /\ HasLine(lines, << PassMark, " ", "Passed:" >>)
             /\ HasLine(lines, << Stopwatch, " ", "Duration:" >>)
             /\ \/ HasLine(lines, << NL, PassMark, " ", "All tests passed" >>)
                \/ HasLine(lines, << NL, FailMark, " ", "Tests failed" >>)

\* ------------------------------------------------ the numbers of a report
\* C25: in every report the total printed in the header is passed + failed
\* and is the number of case lines of the report, and the number printed
\* in the "Passed:" line is the number of case lines with the pass marker.
C25_PrintedCountsAgree ==
  \A r \in Reported :
    LET report == runs[r].report
        lines  == ReportLines(r)
        header == MatchNumber(lines[1].text, HeaderLabel \o << " " >>)
        cases  == CaseLinePositions(lines)
        passes == { i \in cases : lines[i].text[1] = PassMark }
    IN  /\ header.found
        /\ header.value = report.passed + report.failed
        /\ header.value = Cardinality(cases)
        /\ \A i \in 1..Len(lines) :
             StartsWith(lines[i].text, << PassMark, " ", "Passed:", " " >>)
               => MatchNumber(lines[i].text, << "Passed:", " " >>).value
                    = Cardinality(passes)

\* ------------------------------------------------------------ a hung body
\* C24: for as long as the body a run awaits has not completed, no later
\* test of the run's batch has been started, testResults has no entry for
\* the awaited body or for a later one, and the run has written no report;
\* so a body that never completes stalls its batch for good.
C24_HungBodyStallsBatch ==
  \A r \in Running :
    LET batch == runs[r].batch
        i     == runs[r].idx
        rest  == { batch[j].fn : j \in i..Len(batch) }
    IN  /\ bodies[batch[i].fn].invoked = 1 /\ bodies[batch[i].fn].settled = 0
        /\ \A j \in (i + 1)..Len(batch) : bodies[batch[j].fn].invoked = 0
        /\ \A k \in 1..Len(testResults) : testResults[k].fn \notin rest
        /\ \A id \in rest : bodies[id].reported = 0
        /\ runs[r].report = NoReport /\ runs[r].ret = "pending"

\* C24 witness: a run took two tests and still awaits the first when the
\* clock has reached its end, both signals have fired and no timer is
\* left: the second test was never started and nothing was reported.
C24_Witness ==
  /\ now = MaxTime /\ loadFired /\ timers = << >>
  /\ \E r \in Running :
       /\ Len(runs[r].batch) = 2 /\ runs[r].idx = 1
       /\ bodies[runs[r].batch[2].fn].invoked = 0
  /\ Reported = {}

\* ------------------------------------------- registrations before the signal
\* The tests registered before DOMContentLoaded, and the runs that took
\* some of them.
EarlyTests == { id \in 1..Len(bodies) : ~bodies[id].domReady }

TookEarly(r) == \E i \in 1..Len(runs[r].batch) : runs[r].batch[i].fn \in EarlyTests

\* Before the signal nothing is scheduled and no timer has started a run:
\* every registration is in the queue, or in a batch that a direct call of
\* runPendingTests took.
OnlyQueuedBeforeSignal ==
  ~domContentLoaded =>
    /\ timers = << >> /\ ~autoRunScheduled
    /\ \A r \in 1..Len(runs) : runs[r].trigger = "direct"
    /\ \A id \in 1..Len(bodies) : Holders(id) = 1

\* C22 as stated: before the signal enqueueTest only appends to the queue,
\* and every test registered before the signal is run by the run of the
\* debounce timer that the signal schedules.
C22_EarlyTestsRunByDomReadyTimer ==
  /\ OnlyQueuedBeforeSignal
  /\ \A r \in 1..Len(runs) : TookEarly(r) => runs[r].trigger = "debounce"

\* C22 amended: before the signal enqueueTest only appends to the queue;
\* the tests registered before the signal that no direct call has taken
\* stay queued until the debounce timer scheduled by the signal fires, and
\* are run together by its run, the first run started by a timer.
C22_EarlyTestsRunByTimerOrDirectCall ==
  /\ OnlyQueuedBeforeSignal
  /\ \A r \in 1..Len(runs) :
       (TookEarly(r) /\ runs[r].trigger # "direct") =>
         /\ runs[r].trigger = "debounce"
         /\ \A q \in 1..(r - 1) : runs[q].trigger = "direct"
         /\ \A id \in EarlyTests :
              \/ \E i \in 1..Len(runs[r].batch) : runs[r].batch[i].fn = id
              \/ \E q \in 1..(r - 1) :
                   \E i \in 1..Len(runs[q].batch) : runs[q].batch[i].fn = id

\* C22 witness: of two tests registered before the signal a direct call
\* ran the first, and the second stayed queued until the debounce timer
\* set by the signal ran it.
C22_Witness ==
  /\ Len(runs) = 2 /\ EarlyTests = { 1, 2 }
  /\ runs[1].trigger = "direct" /\ runs[1].batch[1].fn = 1
  /\ runs[2].trigger = "debounce" /\ runs[2].batch[1].fn = 2
  /\ bodies[2].invoked = 1

\* ---------------------------------------------------------------- test.ui
MaxUiTests == 2

\* What document.querySelector(selector) finds for a UI test: a template,
\* nothing, or an element whose content cannot be cloned.
Fixtures == { "found", "missing", "unclonable" }

\* (mutant) a missing or unclonable template goes unnoticed.
MakeTestDOMUnchecked(fixture) ==
  [ threw |-> FALSE, error |-> "none", message |-> "none" ]

\* makeTestDOM(selector): findTestTemplate throws an Error when nothing
\* matches, cloneTemplateContent wraps what cloneNode throws in an Error.
MakeTestDOM(fixture) ==
  IF fixture = "missing"
    THEN [ threw |-> TRUE, error |-> "Error",
           message |-> "test.ui(): Template not found" ]
  ELSE IF fixture = "unclonable"
    THEN [ threw |-> TRUE, error |-> "Error",
           message |-> "test.ui(): Failed to clone template content" ]
  ELSE [ threw |-> FALSE, error |-> "none", message |-> "none" ]

\* The body that test.ui registers, from its call up to the point where it
\* either has settled or awaits testFn: withSandbox attaches the sandbox,
\* the callback builds the fixture, and a failure of either comes back as
\* a rejection of the body after the finally block of withSandbox.
\* S holds the counters (st), the body's children, the calls and the bodies.
UiBody(S, testCase) ==
  LET c        == Len(S.calls) + 1
      sandbox  == SandboxOf(c, testCase.template)
      appended == AppendChild(S.children, sandbox)
      dom      == MakeTestDOM(testCase.fixture)
      call     == [ sandbox |-> sandbox, template |-> testCase.template,
                    state |-> "awaiting", outcome |-> "pending",
                    attachedAtCall |-> sandbox \in appended.children,
                    detachedByFn |-> FALSE, test |-> testCase.fn ]
      bd       == [ Invoked(S.bd, testCase.fn) EXCEPT
                      ![testCase.fn].startedWith = S.children ]
  IN  IF appended.threw
        THEN [ suspended |-> FALSE,
               st       |-> Settle(S.st, testCase, "Error"),
               children |-> appended.children,
               calls    |-> Append(S.calls, [ call EXCEPT !.state = "threw",
                                                          !.outcome = "none" ]),
               bd       |-> Settled(bd, testCase.fn, "Error") ]
      ELSE IF dom.threw
        THEN LET released == Release(appended.children, sandbox, "reject")
             IN  [ suspended |-> FALSE,
                   st       |-> Settle(S.st, testCase, dom.error),
                   children |-> released.children,
                   calls    |-> Append(S.calls,
                                  [ call EXCEPT !.state = Ending("reject", released.threw),
                                                !.outcome = "reject" ]),
                   bd       |-> Settled(bd, testCase.fn, dom.error) ]
      ELSE [ suspended |-> TRUE,
             st       |-> S.st,
             children |-> appended.children,
             calls    |-> Append(S.calls, call),
             bd       |-> bd ]

RECURSIVE UiLoop(_, _, _)
\* The loop of runPendingTests over a batch of UI tests, from the point
\* where i cases are settled until a body awaits its testFn or the batch
\* is exhausted.
UiLoop(S, batch, i) ==
  IF i = Len(batch) THEN [ S EXCEPT !.suspended = FALSE, !.idx = i ]
  ELSE LET after == UiBody(S, batch[i + 1])
       IN  IF after.suspended
             THEN [ S EXCEPT !.suspended = TRUE, !.idx = i + 1,
                             !.st = after.st, !.children = after.children,
                             !.calls = after.calls, !.bd = after.bd ]
             ELSE UiLoop([ S EXCEPT !.st = after.st, !.children = after.children,
                                    !.calls = after.calls, !.bd = after.bd ],
                         batch, i + 1)

\* Run r of UI tests goes on from i settled cases: what the loop leaves,
\* and the report when it comes to its end.
UiProceed(r, S, cons, rs, i, tot, start) ==
  LET T == UiLoop(S, rs[r].batch, i)
  IN  /\ passed' = T.st.passed
      /\ failed' = T.st.failed
      /\ testResults' = T.st.testResults
      /\ bodyChildren' = T.children
      /\ calls' = T.calls
      /\ IF T.suspended
           THEN /\ bodies' = T.bd
                /\ runs' = [ rs EXCEPT ![r].idx = T.idx ]
                /\ console' = cons
                /\ UNCHANGED << alerts, testCompleted >>
           ELSE LET rep == LogSummary(T.st, tot, start, now)
                IN  /\ bodies' = MarkReported(T.bd, T.st.testResults,
                                              Printed(T.st.testResults))
                    /\ console' = cons \o rep.lines
                    /\ alerts' = alerts \o rep.alerts
                    /\ testCompleted' = (testCompleted \/ rep.completed)
                    /\ runs' = [ rs EXCEPT ![r] =
                          [ @ EXCEPT !.idx = T.idx, !.state = "done", !.ret = rep.ret,
                                     !.report = [ results |-> T.st.testResults,
                                                  passed  |-> T.st.passed,
                                                  failed  |-> T.st.failed,
                                                  total   |-> tot,
                                                  from    |-> Len(cons) + 1,
                                                  to      |-> Len(cons) + Len(rep.lines),
                                                  alerts  |-> Len(rep.alerts) ] ] ]

\* test.ui(name, selector, testFn), before DOMContentLoaded: the body is
\* queued; fixture and template tell what the document holds for it.
TestUi ==
  /\ Len(bodies) < MaxUiTests
  /\ runs = << >>
  /\ \E fixture \in Fixtures : \E template \in Templates :
       LET id   == Len(bodies) + 1
           name == NameOf(id)
       IN  /\ testQueue' = Append(testQueue, [ name |-> name, fn |-> id,
                                               fixture |-> fixture,
                                               template |-> template ])
           /\ bodies' = Append(bodies, [ name |-> name, invoked |-> 0, settled |-> 0,
                                         raised |-> 0, reported |-> 0,
                                         domReady |-> domContentLoaded,
                                         fixture |-> fixture, startedWith |-> {} ])
  /\ UNCHANGED << passed, failed, total, startTime, testResults, autoRunScheduled,
                  domContentLoaded, timers, loadFired, now, console, alerts,
                  testCompleted, runs, extractVars, diffVars, sandboxVars >>

\* runPendingTests() on the queued UI tests, up to its first await or its
\* return.
UiRun ==
  /\ runs = << >>
  /\ ~NothingPending(testQueue)
  /\ LET st0  == Start(now)
         run  == [ trigger |-> "direct", batch |-> TestsToRun(testQueue), idx |-> 0,
                   state |-> "running", ret |-> "pending", report |-> NoReport ]
     IN  /\ total' = Len(testQueue)
         /\ startTime' = st0.startTime
         /\ testQueue' = Drained(testQueue)
         /\ UiProceed(1, [ st |-> [ passed |-> st0.passed, failed |-> st0.failed,
                                    testResults |-> st0.testResults ],
                           children |-> bodyChildren, calls |-> calls,
                           bd |-> bodies, suspended |-> FALSE, idx |-> 0 ],
                      console \o st0.lines, << run >>, 0, Len(testQueue), st0.startTime)
  /\ UNCHANGED << autoRunScheduled, domContentLoaded, timers, loadFired, now,
                  extractVars, diffVars >>

\* The testFn that the run awaits settles: the callback of withSandbox
\* returns or rejects, the finally block runs, the body settles and the
\* loop goes on.
UiResume(outcome) ==
  /\ Len(runs) = 1 /\ runs[1].state = "running"
  /\ LET testCase == runs[1].batch[runs[1].idx]
         c        == CHOOSE k \in 1..Len(calls) : calls[k].test = testCase.fn
         exit     == IF outcome = "ok" THEN "return" ELSE "reject"
         released == Release(bodyChildren, calls[c].sandbox, exit)
         st       == Settle([ passed |-> passed, failed |-> failed,
                              testResults |-> testResults ], testCase, outcome)
     IN  UiProceed(1, [ st |-> st, children |-> released.children,
                        calls |-> [ calls EXCEPT ![c].state = Ending(exit, released.threw),
                                                 ![c].outcome = exit ],
                        bd |-> Settled(bodies, testCase.fn, outcome),
                        suspended |-> FALSE, idx |-> runs[1].idx ],
                   console, runs, runs[1].idx, total, startTime)
  /\ UNCHANGED << total, startTime, testQueue, autoRunScheduled, domContentLoaded,
                  timers, loadFired, now, extractVars, diffVars >>

UiNext ==
  \/ TestUi
  \/ UiRun
  \/ \E outcome \in {"ok"} \cup Values : UiResume(outcome)

UiSpec == Init /\ [][UiNext]_vars

\* The UI tests whose fixture could not be made and whose body was called.
FailedSetups ==
  { id \in 1..Len(bodies) : bodies[id].fixture # "found" /\ bodies[id].invoked > 0 }

\* The sandboxes attached by the withSandbox call of test id.
SandboxesOf(id) ==
  { calls[c].sandbox : c \in { k \in 1..Len(calls) : calls[k].test = id } } \ { 0 }

\* C23: a UI test whose template is missing or cannot be cloned has
\* settled with exactly one failed entry in testResults, carrying the
\* Error; the test after it in the batch has been started, with the
\* sandbox of the failed test already detached; and when the run is done
\* its promise is not rejected on account of that Error.
C23_UiSetupFailureIsOneFailure ==
  \A id \in FailedSetups :
    LET entries == { k \in 1..Len(testResults) : testResults[k].fn = id }
        batch   == runs[1].batch
        at      == CHOOSE i \in 1..Len(batch) : batch[i].fn = id
    IN  /\ bodies[id].settled = 1
        /\ Cardinality(entries) = 1
        /\ \A k \in entries : /\ ~testResults[k].passed
                              /\ testResults[k].error = "Error"
        /\ SandboxesOf(id) \cap bodyChildren = {}
        /\ at < Len(batch) =>
             /\ bodies[batch[at + 1].fn].invoked = 1
             /\ SandboxesOf(id) \cap bodies[batch[at + 1].fn].startedWith = {}
        /\ (runs[1].state = "done" /\ runs[1].ret = "rejected")
             => \E k \in 1..Len(testResults) : Nullish(testResults[k].error)

\* C23 witness: a UI test whose template is missing was followed by one
\* whose template was found and whose testFn passed; the run reported one
\* failed and one passed and returned false; no sandbox is left attached.
C23_Witness ==
  /\ Len(runs) = 1 /\ runs[1].state = "done" /\ runs[1].ret = "false"
  /\ Len(bodies) = 2
  /\ bodies[1].fixture = "missing" /\ bodies[2].fixture = "found"
  /\ \E c \in 1..Len(calls) : calls[c].test = 1 /\ calls[c].attachedAtCall
  /\ Len(testResults) = 2
  /\ ~testResults[1].passed /\ testResults[2].passed
  /\ bodyChildren = {}

====
